---- MODULE Spec2Model ----
(***************************************************************************)
(* GSVPlugin (src/main.py): the GPT-SoVITS text-to-speech connector.       *)
(*                                                                         *)
(* The plugin runs on one asyncio event loop.  Each action below is the    *)
(* code one coroutine runs between two suspension points (await / yield).  *)
(* A string is a sequence of one-character strings; characters outside     *)
(* ASCII are written by their code point ("U+FF08").                       *)
(***************************************************************************)
EXTENDS Integers, Sequences, FiniteSets, TLC

\* ------------------------------------------------------------------ bounds

\* longest reply text / command argument fed to the handlers
MaxTextLen == 3
\* longest response body (audio bytes or error text) the HTTP layer returns
MaxBodyLen == 2
\* random.random() is drawn from {0/ProbScale, ..., (ProbScale-1)/ProbScale}
ProbScale == 2
\* largest integer command argument
MaxIntArg == 1

\* ------------------------------------------------------------- characters

LPAREN == "U+FF08"
RPAREN == "U+FF09"
LLENT  == "U+3010"
RLENT  == "U+3011"
CJK    == "U+4F60"

\* the characters the model's input texts are made of
Alphabet == {"1", " ", "[", "]"}

AsciiAlnum == {"0", "1", "2", "3", "4", "5", "6", "7", "8", "9", "a", "b", "Z"}
CjkIdeographs == {CJK}
Whitespace == {" ", "\n", "\t"}

\* all sequences over S of length at most n
SeqsUpTo(S, n) == UNION {[1..k -> S] : k \in 0..n}

\* ------------------------------------------------------- string functions

\* str.strip(): leading and trailing whitespace removed
RECURSIVE LStrip(_)
LStrip(s) ==
    IF s # <<>> /\ Head(s) \in Whitespace THEN LStrip(Tail(s)) ELSE s

RECURSIVE RStrip(_)
RStrip(s) ==
    IF s # <<>> /\ s[Len(s)] \in Whitespace
    THEN RStrip(SubSeq(s, 1, Len(s) - 1))
    ELSE s

Strip(s) == RStrip(LStrip(s))

\* the closing bracket of each of the three opening brackets of the pattern
Closer == (LPAREN :> RPAREN) @@ (LLENT :> RLENT) @@ ("[" :> "]")

\* the index of the first occurrence of c in s after position 1, 0 if none
FirstAfter(s, c) ==
    IF \E j \in 2..Len(s) : s[j] = c
    THEN CHOOSE j \in 2..Len(s) : s[j] = c /\ \A k \in 2..(j - 1) : s[k] # c
    ELSE 0

\* does the pattern match at the head of s, and where does the match end:
\* an opening bracket, the shortest run of non-newline characters, its closer
MatchEnd(s) ==
    IF s = <<>> \/ Head(s) \notin DOMAIN Closer THEN 0
    ELSE LET j == FirstAfter(s, Closer[Head(s)])
         IN  IF j # 0 /\ \A k \in 2..(j - 1) : s[k] # "\n" THEN j ELSE 0

\* re.sub(r"（.*?）|【.*?】|\[.*?\]", "", s): leftmost non-overlapping matches
RECURSIVE StripBrackets(_)
StripBrackets(s) ==
    IF s = <<>> THEN <<>>
    ELSE IF MatchEnd(s) # 0
         THEN StripBrackets(SubSeq(s, MatchEnd(s) + 1, Len(s)))
         ELSE <<Head(s)>> \o StripBrackets(Tail(s))

\* text_to_speak of on_llm_resp
TextToSpeak(original_text) == Strip(StripBrackets(original_text))

\* re.sub(r"[^a-zA-Z0-9一-鿿\s]", "", text)
Sanitize(text) ==
    SelectSeq(text, LAMBDA c : c \in AsciiAlnum \cup CjkIdeographs \cup Whitespace)

\* s[:n]
Prefix(s, n) == SubSeq(s, 1, IF Len(s) < n THEN Len(s) ELSE n)

\* str(n) of a non-negative integer
DigitChar == <<"0", "1", "2", "3", "4", "5", "6", "7", "8", "9">>

RECURSIVE IntToStr(_)
IntToStr(n) ==
    IF n < 10 THEN <<DigitChar[n + 1]>>
    ELSE IntToStr(n \div 10) \o <<DigitChar[(n % 10) + 1]>>

\* ------------------------------------------------------------ input sets

\* reply texts of the LLM
Texts == SeqsUpTo(Alphabet, MaxTextLen)

\* a command argument is absent, a string or an integer (str | int | None)
NoArg == [tag |-> "none", str |-> <<>>, int |-> 0]
StrArg(s) == [tag |-> "str", str |-> s, int |-> 0]
IntArg(n) == [tag |-> "int", str |-> <<>>, int |-> n]

\* string arguments of every length up to MaxTextLen: a character of the
\* alphabet after k - 1 spaces
CmdStrs == {[i \in 1..k |-> IF i = k THEN c ELSE " "] : c \in Alphabet, k \in 0..MaxTextLen}
CmdArgs == {NoArg} \cup {StrArg(s) : s \in CmdStrs} \cup {IntArg(n) : n \in 0..MaxIntArg}

\* the conversation an event comes from: group_id is empty in a private chat
Events == {[group |-> <<>>, sender |-> <<"5">>]}
NoEvent == [group |-> <<>>, sender |-> <<>>]

\* texts about as long as the prefix kept in a file name: a run of one allowed
\* character between a head and a tail that hold whitespace, separators and
\* brackets
MaxRun == 31
Run(c, k) == [i \in 1..k |-> c]
RunLens == {0, 1} \cup {k \in 0..MaxRun : k + 2 >= MaxRun}
NameTexts ==
    {head \o Run(c, k) \o tail :
        head \in {<<>>, <<" ">>, <<"_">>, <<"\t", "[">>},
        c \in {"1", CJK},
        k \in RunLens,
        tail \in {<<>>, <<" ">>, <<".", "a">>, <<" ", "Z">>}}

\* conversations with and without a group and a sender id
NameEvents == {[group |-> g, sender |-> u] : g \in {<<>>, <<"7">>}, u \in {<<>>, <<"5">>}}

\* response bodies
ByteVals == {255}
Bodies == SeqsUpTo(ByteVals, MaxBodyLen)

\* what the HTTP layer does with one request
Statuses == {200, 201, 500}
NoHttp == [kind |-> "none", status |-> 0, body |-> <<>>]
Pending == [kind |-> "pending", status |-> 0, body |-> <<>>]
HttpOutcomes ==
    {[kind |-> "response", status |-> st, body |-> b] : st \in Statuses, b \in Bodies}
    \cup {[kind |-> k, status |-> 0, body |-> <<>>] : k \in {"client_error", "exception"}}

\* what open(save_path, "wb") / write() do
WriteOutcomes == {"ok", "open_error", "write_error"}

\* configuration values
Url == <<"h">>
BaseUrls == {<<>>, Url}
Probabilities == 0..ProbScale
Samples == 0..(ProbScale - 1)
MaxRespTextLens == {1, 2}
CleanupIntervals == {-1, 0, 1}

\* the scratch directory before the plugin is constructed
StaleFile == <<"o", "l", "d">>
SubDir == <<"s", "u", "b">>

\* ---------------------------------------------------------------- state

VARIABLES
    base_url,                 \* self.base_url
    send_record_probability,  \* self.send_record_probability, in 1/ProbScale
    max_resp_text_len,        \* self.max_resp_text_len
    cleanup_interval_hours,   \* self.cleanup_interval_hours
    response_format,          \* self.tts_core_params.get("response_format", "wav")
    task,                     \* the handler invocations, by slot
    files,                    \* regular files of SAVED_AUDIO_DIR: name -> contents
    dirs,                     \* subdirectories of SAVED_AUDIO_DIR
    cleanup                   \* the _periodic_cleanup task

config == <<base_url, send_record_probability, max_resp_text_len,
            cleanup_interval_hours, response_format>>
vars == <<base_url, send_record_probability, max_resp_text_len,
          cleanup_interval_hours, response_format, task, files, dirs, cleanup>>

\* handler slots
NumTasks == 2
Tasks == 1..NumTasks

\* results of _make_request
NoBytes == [tag |-> "none", bytes |-> <<>>]
BytesOf(b) == [tag |-> "bytes", bytes |-> b]

\* results of tts_inference
NotCalled == [tag |-> "not_called", path |-> <<>>]
None == [tag |-> "none", path |-> <<>>]
PathOf(p) == [tag |-> "path", path |-> p]

IdleTask ==
    [pc |-> "idle", kind |-> "none", event |-> NoEvent, arg |-> NoArg,
     chain |-> <<>>, sample |-> -1, samples |-> 0, gate |-> "none",
     text |-> <<>>, file_name |-> <<>>, tts_calls |-> 0, requests |-> 0,
     writes |-> 0, http |-> NoHttp, overlapped |-> FALSE,
     audio_bytes |-> NoBytes, save_path |-> NotCalled,
     sent |-> <<>>, replies |-> <<>>]

\* --------------------------------------------------------- construction

\* faulty variant of CleanupEnabled: an interval of 0 starts the task
CleanupEnabled_OffByOne == cleanup_interval_hours >= 0

\* __init__: the cleanup task is created only for a positive interval
CleanupEnabled == cleanup_interval_hours > 0

\* the plugin constructed from a configuration whose cleanup_interval is one
\* of intervals
Constructed(intervals) ==
    /\ base_url \in BaseUrls
    /\ send_record_probability \in Probabilities
    /\ max_resp_text_len \in MaxRespTextLens
    /\ cleanup_interval_hours \in intervals
    /\ response_format = <<"w", "a", "v">>
    /\ task = [t \in Tasks |-> IdleTask]
    /\ files = (StaleFile :> <<255>>)
    /\ dirs = {SubDir}
    /\ cleanup = [pc |-> IF CleanupEnabled THEN "created" ELSE "none",
                  interval_seconds |-> 0, listing_error |-> FALSE,
                  attempted |-> 0, cleaned_count |-> 0, purged |-> FALSE]

Init == Constructed(CleanupIntervals)

\* ------------------------------------------------------- the decisions

\* faulty variant of ProbabilityGateRejects: a sample equal to the probability
\* is rejected
ProbabilityGateRejects_OffByOne(sample) == sample >= send_record_probability

\* on_llm_resp: random.random() > self.send_record_probability
ProbabilityGateRejects(sample) == sample > send_record_probability

\* faulty variant of LengthGateRejects: a text of the maximum length is rejected
LengthGateRejects_OffByOne(text) == Len(text) >= max_resp_text_len

\* on_llm_resp: len(text_to_speak) > self.max_resp_text_len
LengthGateRejects(text) == Len(text) > max_resp_text_len

\* on_llm_resp: not text_to_speak
EmptyGateRejects(text) == text = <<>>

\* on_command: not send_text (None, "" and 0 are falsy)
NoArgument(arg) ==
    \/ arg.tag = "none"
    \/ arg.tag = "str" /\ arg.str = <<>>
    \/ arg.tag = "int" /\ arg.int = 0

\* on_command: str(send_text)
ArgText(arg) == IF arg.tag = "int" THEN IntToStr(arg.int) ELSE arg.str

\* faulty variant of EndpointMissing: the guard is missing
EndpointMissing_Dropped == FALSE

\* tts_inference: not self.base_url
EndpointMissing == base_url = <<>>

\* faulty variant of StatusRejected: every 2xx status is accepted
StatusRejected_Any2xx(status) == status \notin 200..299

\* _make_request: response.status != 200
StatusRejected(status) == status # 200

\* _make_request: does it return the body (rather than None), and the bytes;
\* a transport error and any other exception are caught and give None
MakeRequestReturnsBytes(outcome) ==
    outcome.kind = "response" /\ ~StatusRejected(outcome.status)

MakeRequest(outcome) ==
    IF MakeRequestReturnsBytes(outcome) THEN BytesOf(outcome.body) ELSE NoBytes

\* tts_inference: if audio_bytes (None and b"" are falsy)
AudioTruthy(audio_bytes) == audio_bytes.tag = "bytes" /\ audio_bytes.bytes # <<>>

\* generate_file_name
NamePrefixLen == 30

\* a file name whose text is cut to its prefix before it is trimmed
generate_file_name_TruncatesFirst(event, text) ==
    LET group_id == IF event.group = <<>> THEN <<"0">> ELSE event.group
        sender_id == IF event.sender = <<>> THEN <<"0">> ELSE event.sender
        limit_text == Strip(Prefix(Sanitize(text), NamePrefixLen))
    IN  group_id \o <<"_">> \o sender_id \o <<"_">> \o limit_text
            \o <<".">> \o response_format

generate_file_name(event, text) ==
    LET group_id == IF event.group = <<>> THEN <<"0">> ELSE event.group
        sender_id == IF event.sender = <<>> THEN <<"0">> ELSE event.sender
        sanitized_text == Sanitize(text)
        limit_text == Prefix(Strip(sanitized_text), NamePrefixLen)
        media_type == response_format
    IN  group_id \o <<"_">> \o sender_id \o <<"_">> \o limit_text
            \o <<".">> \o media_type

\* str(SAVED_AUDIO_DIR / file_name)
SavePath(file_name) == <<"temp", "/">> \o file_name

\* message segments
Plain(text) == [type |-> "Plain", text |-> text, file |-> <<>>]
Record(path) == [type |-> "Record", text |-> <<>>, file |-> path]
UsagePrompt == Plain(<<"usage prompt">>)
FailureNotice == Plain(<<"failure notice">>)

\* ------------------------------------------------------------- handlers

Restrict(f, S) == [x \in S |-> f[x]]

\* tts_inference up to its await: the guard, then the request is issued
TtsEnter(r) ==
    IF EndpointMissing
    THEN [r EXCEPT !.tts_calls = @ + 1, !.save_path = None]
    ELSE [r EXCEPT !.tts_calls = @ + 1, !.requests = @ + 1,
                   !.http = Pending, !.pc = "http"]

\* on_llm_resp after tts_inference returned: if save_path, await event.send
LlmAfterTts(r) ==
    IF r.save_path.tag = "path" THEN [r EXCEPT !.pc = "send"]
    ELSE [r EXCEPT !.pc = "done"]

\* on_command after tts_inference returned: yield the audio or the notice
CmdAfterTts(r) ==
    IF r.save_path.tag = "path"
    THEN [r EXCEPT !.pc = "yielded",
                   !.replies = Append(@, <<Record(r.save_path.path)>>)]
    ELSE [r EXCEPT !.pc = "yielded", !.replies = Append(@, <<FailureNotice>>)]

AfterTts(r) == IF r.kind = "llm" THEN LlmAfterTts(r) ELSE CmdAfterTts(r)

\* on_llm_resp from its call to the first suspension point
LlmStart(event, text, sample) ==
    LET r0 == [IdleTask EXCEPT !.kind = "llm", !.event = event,
                               !.arg = StrArg(text), !.chain = text,
                               !.sample = sample, !.samples = 1]
        text_to_speak == TextToSpeak(text)
    IN  IF ProbabilityGateRejects(sample)
        THEN [r0 EXCEPT !.pc = "done", !.gate = "prob"]
        ELSE IF LengthGateRejects(text_to_speak)
        THEN [r0 EXCEPT !.pc = "done", !.gate = "len", !.text = text_to_speak]
        ELSE IF EmptyGateRejects(text_to_speak)
        THEN [r0 EXCEPT !.pc = "done", !.gate = "empty", !.text = text_to_speak]
        ELSE LET r1 == TtsEnter([r0 EXCEPT
                           !.gate = "pass", !.text = text_to_speak,
                           !.file_name = generate_file_name(event, text_to_speak)])
             IN  IF r1.pc = "http" THEN r1 ELSE LlmAfterTts(r1)

on_llm_resp(t, event, text, sample) ==
    /\ task[t].pc = "idle"
    /\ task' = [task EXCEPT ![t] = LlmStart(event, text, sample)]
    /\ UNCHANGED <<config, files, dirs, cleanup>>

\* on_command from its call to the first suspension point
CmdStart(event, send_text) ==
    LET r0 == [IdleTask EXCEPT !.kind = "cmd", !.event = event, !.arg = send_text]
    IN  IF NoArgument(send_text)
        THEN [r0 EXCEPT !.pc = "yielded", !.gate = "usage",
                        !.replies = Append(@, <<UsagePrompt>>)]
        ELSE LET text_to_speak == ArgText(send_text)
                 r1 == TtsEnter([r0 EXCEPT
                           !.gate = "pass", !.text = text_to_speak,
                           !.file_name = generate_file_name(event, text_to_speak)])
             IN  IF r1.pc = "http" THEN r1 ELSE CmdAfterTts(r1)

on_command(t, event, send_text) ==
    /\ task[t].pc = "idle"
    /\ task' = [task EXCEPT ![t] = CmdStart(event, send_text)]
    /\ UNCHANGED <<config, files, dirs, cleanup>>

\* the request of invocation t ends while the request of another is pending
Overlaps(t) == \E u \in Tasks \ {t} : task[u].pc = "http"

\* a tts_inference that creates its file and suspends before it writes
http_done_Suspends(t, outcome, wr) ==
    /\ task[t].pc = "http"
    /\ wr = "ok"
    /\ LET r == [task[t] EXCEPT !.http = outcome,
                                !.overlapped = Overlaps(t),
                                !.audio_bytes = MakeRequest(outcome)]
       IN  IF AudioTruthy(r.audio_bytes)
           THEN /\ files' = (r.file_name :> <<>>) @@ files
                /\ task' = [task EXCEPT ![t] = [r EXCEPT !.pc = "writing"]]
           ELSE /\ files' = files
                /\ task' = [task EXCEPT ![t] = AfterTts([r EXCEPT !.save_path = None])]
    /\ UNCHANGED <<config, dirs, cleanup>>

\* a tts_inference that opens its file to append to it
http_done_Appends(t, outcome, wr) ==
    /\ task[t].pc = "http"
    /\ wr = "ok"
    /\ LET r == [task[t] EXCEPT !.http = outcome,
                                !.overlapped = Overlaps(t),
                                !.audio_bytes = MakeRequest(outcome)]
           file_name == r.file_name
           old == IF file_name \in DOMAIN files THEN files[file_name] ELSE <<>>
       IN  IF AudioTruthy(r.audio_bytes)
           THEN /\ files' = (file_name :> old \o r.audio_bytes.bytes) @@ files
                /\ task' = [task EXCEPT ![t] = AfterTts(
                       [r EXCEPT !.writes = @ + 1,
                                 !.save_path = PathOf(SavePath(file_name))])]
           ELSE /\ files' = files
                /\ task' = [task EXCEPT ![t] = AfterTts([r EXCEPT !.save_path = None])]
    /\ UNCHANGED <<config, dirs, cleanup>>

\* the request of _make_request ends; tts_inference writes the file and returns
\* (or open/write raises), and the handler runs on to its next suspension point.
\* overlapped notes whether another request was pending at that time
http_done(t, outcome, wr) ==
    /\ task[t].pc = "http"
    /\ LET r == [task[t] EXCEPT !.http = outcome,
                                !.overlapped = Overlaps(t),
                                !.audio_bytes = MakeRequest(outcome)]
           audio_bytes == r.audio_bytes.bytes
           file_name == r.file_name
       IN  IF AudioTruthy(r.audio_bytes)
           THEN \/ /\ wr = "ok"
                   /\ files' = (file_name :> audio_bytes) @@ files
                   /\ task' = [task EXCEPT ![t] = AfterTts(
                          [r EXCEPT !.writes = @ + 1,
                                    !.save_path = PathOf(SavePath(file_name))])]
                \/ /\ wr = "open_error"
                   /\ files' = files
                   /\ task' = [task EXCEPT ![t] =
                          [r EXCEPT !.writes = @ + 1, !.pc = "raised"]]
                \/ /\ wr = "write_error"
                   /\ \E k \in 0..(Len(audio_bytes) - 1) :
                          files' = (file_name :> Prefix(audio_bytes, k)) @@ files
                   /\ task' = [task EXCEPT ![t] =
                          [r EXCEPT !.writes = @ + 1, !.pc = "raised"]]
           ELSE /\ wr = "ok"
                /\ files' = files
                /\ task' = [task EXCEPT ![t] = AfterTts([r EXCEPT !.save_path = None])]
    /\ UNCHANGED <<config, dirs, cleanup>>

\* a handler that sends the text it had synthesized, brackets stripped
send_done_SendsSpoken(t) ==
    /\ task[t].pc = "send"
    /\ task' = [task EXCEPT ![t] =
           [@ EXCEPT !.pc = "done",
                     !.sent = Append(@, <<Plain(task[t].text),
                                          Record(task[t].save_path.path)>>)]]
    /\ UNCHANGED <<config, files, dirs, cleanup>>

\* a handler that removes its audio file once the message is sent
send_done_Unlinks(t) ==
    /\ task[t].pc = "send"
    /\ task' = [task EXCEPT ![t] =
           [@ EXCEPT !.pc = "done",
                     !.sent = Append(@, <<Plain(task[t].arg.str),
                                          Record(task[t].save_path.path)>>)]]
    /\ files' = Restrict(files, (DOMAIN files) \ {task[t].file_name})
    /\ UNCHANGED <<config, dirs, cleanup>>

\* on_llm_resp: event.send(MessageChain([Plain(original_text), Record(save_path)]))
\* completes and the handler returns
send_done(t) ==
    /\ task[t].pc = "send"
    /\ task' = [task EXCEPT ![t] =
           [@ EXCEPT !.pc = "done",
                     !.sent = Append(@, <<Plain(task[t].arg.str),
                                          Record(task[t].save_path.path)>>)]]
    /\ UNCHANGED <<config, files, dirs, cleanup>>

\* on_command: the host took the yielded result and resumes the generator,
\* which ends
resume(t) ==
    /\ task[t].pc = "yielded"
    /\ task' = [task EXCEPT ![t] = [@ EXCEPT !.pc = "done"]]
    /\ UNCHANGED <<config, files, dirs, cleanup>>

\* the host is done with a finished invocation; its slot is free again
retire(t) ==
    /\ task[t].pc \in {"done", "raised"}
    /\ task' = [task EXCEPT ![t] = IdleTask]
    /\ UNCHANGED <<config, files, dirs, cleanup>>

\* ------------------------------------------------------------- cleanup

\* a purge whose failure to list the directory ends the cleanup task
perform_cleanup_Escapes(c, listing_fails, unlink_fails) ==
    LET removed == (DOMAIN files) \ unlink_fails
    IN  /\ files' = IF listing_fails THEN files
                    ELSE Restrict(files, (DOMAIN files) \ removed)
        /\ dirs' = dirs
        /\ cleanup' = IF listing_fails THEN [cleanup EXCEPT !.pc = "ended"]
                      ELSE [c EXCEPT !.listing_error = FALSE,
                                     !.attempted = Cardinality(DOMAIN files),
                                     !.cleaned_count = Cardinality(removed),
                                     !.purged = TRUE]

\* a purge that gives up at the first unlink() that fails
perform_cleanup_StopsAtFailure(c, listing_fails, unlink_fails) ==
    LET listed == IF listing_fails THEN {}
                  ELSE IF unlink_fails \cap DOMAIN files # {}
                       THEN unlink_fails \cap DOMAIN files
                       ELSE DOMAIN files
        removed == listed \ unlink_fails
    IN  /\ files' = Restrict(files, (DOMAIN files) \ removed)
        /\ dirs' = dirs
        /\ cleanup' = [c EXCEPT !.listing_error = listing_fails,
                                !.attempted = Cardinality(listed),
                                !.cleaned_count = Cardinality(removed),
                                !.purged = TRUE]

\* _perform_cleanup: iterdir() may fail as a whole, unlink() per file; c is the
\* cleanup task as it is when the pass ends.  listing_error says that the
\* outer handler has logged an error, attempted counts the unlink() calls of
\* the pass, cleaned_count those that succeeded; sub-directories are not files
\* and are skipped
perform_cleanup(c, listing_fails, unlink_fails) ==
    LET listed == IF listing_fails THEN {} ELSE DOMAIN files
        removed == listed \ unlink_fails
    IN  /\ files' = Restrict(files, (DOMAIN files) \ removed)
        /\ dirs' = dirs
        /\ cleanup' = [c EXCEPT !.listing_error = listing_fails,
                                !.attempted = Cardinality(listed),
                                !.cleaned_count = Cardinality(removed),
                                !.purged = TRUE]

\* _periodic_cleanup: the purge before the loop, then the first sleep
cleanup_first(listing_fails, unlink_fails) ==
    /\ cleanup.pc = "created"
    /\ perform_cleanup(
          [cleanup EXCEPT !.pc = "sleeping",
                          !.interval_seconds = cleanup_interval_hours * 3600],
          listing_fails, unlink_fails)
    /\ UNCHANGED <<config, task>>

\* a cleanup task whose sleep does not end while a request is pending
sleep_done_WaitsForRequests ==
    /\ cleanup.pc = "sleeping"
    /\ \A t \in Tasks : task[t].pc # "http"
    /\ cleanup' = [cleanup EXCEPT !.pc = "ready"]
    /\ UNCHANGED <<config, task, files, dirs>>

\* _periodic_cleanup: the timer of asyncio.sleep(interval_seconds) fires and
\* the task is ready to run again
sleep_done ==
    /\ cleanup.pc = "sleeping"
    /\ cleanup' = [cleanup EXCEPT !.pc = "ready"]
    /\ UNCHANGED <<config, task, files, dirs>>

\* a cleanup task that does not purge while a handler holds a path it has not
\* sent yet
cleanup_wake_WaitsForSend(listing_fails, unlink_fails) ==
    /\ cleanup.pc = "ready"
    /\ \A t \in Tasks : task[t].pc \notin {"send", "yielded"}
    /\ files' = [f \in {} |-> <<>>]
    /\ dirs' = dirs
    /\ cleanup' = [cleanup EXCEPT !.pc = "sleeping", !.listing_error = FALSE,
                                  !.attempted = Cardinality(DOMAIN files),
                                  !.cleaned_count = Cardinality(DOMAIN files),
                                  !.purged = TRUE]
    /\ UNCHANGED <<config, task>>

\* _periodic_cleanup: the task runs again: the next purge, the next sleep
cleanup_wake(listing_fails, unlink_fails) ==
    /\ cleanup.pc = "ready"
    /\ perform_cleanup([cleanup EXCEPT !.pc = "sleeping"],
                       listing_fails, unlink_fails)
    /\ UNCHANGED <<config, task>>

\* ------------------------------------------------------- specification

\* a handler is invoked on the lowest free slot
FreeSlot(t) ==
    /\ task[t].pc = "idle"
    /\ \A u \in Tasks : u < t => task[u].pc # "idle"

\* no invocation is in progress
Quiet == \A u \in Tasks : task[u].pc = "idle"

\* the handlers are invoked one after the other, on inputs of the given sets
Handlers(texts, args) ==
    \/ \E t \in Tasks, e \in Events, text \in texts, sample \in Samples :
          Quiet /\ FreeSlot(t) /\ on_llm_resp(t, e, text, sample)
    \/ \E t \in Tasks, e \in Events, a \in args :
          Quiet /\ FreeSlot(t) /\ on_command(t, e, a)

\* the HTTP layer and the file system answer with outcomes of the given sets
Completions(outcomes, writes) ==
    \E t \in Tasks, o \in outcomes, wr \in writes : http_done(t, o, wr)

\* the host sends, resumes and collects the handlers
Host ==
    \/ \E t \in Tasks : send_done(t)
    \/ \E t \in Tasks : resume(t)
    \/ \E t \in Tasks : retire(t)

\* the cleanup task runs beside the handlers; iterdir() fails or not, as listings
\* says, and unlink() fails on the files of one of the sets of failing
Cleanup(listings, failing) ==
    \/ \E lf \in listings, uf \in failing : cleanup_first(lf, uf)
    \/ sleep_done
    \/ \E lf \in listings, uf \in failing : cleanup_wake(lf, uf)

\* Spec: every outcome of the request and of the write, on a few inputs, beside
\* a cleanup task whose purges do not fail
FewTexts == {<<>>, <<"1">>, <<"1", "1">>, <<"[", "]", "1">>}
FewArgs == {NoArg, StrArg(<<>>), StrArg(<<"1">>), IntArg(0), IntArg(1)}

Next ==
    \/ Handlers(FewTexts, FewArgs)
    \/ Completions(HttpOutcomes, WriteOutcomes)
    \/ Host
    \/ Cleanup({FALSE}, {{}})

Spec == Init /\ [][Next]_vars

\* SpecInputs: every input text and argument, on a few outcomes of the request,
\* in a plugin configured with cleanup_interval = 0
FewOutcomes ==
    {[kind |-> "response", status |-> 200, body |-> <<255>>],
     [kind |-> "response", status |-> 500, body |-> <<>>],
     [kind |-> "client_error", status |-> 0, body |-> <<>>]}

NextInputs ==
    \/ Handlers(Texts, CmdArgs)
    \/ Completions(FewOutcomes, {"ok"})
    \/ Host

InitInputs == Constructed({0})

SpecInputs == InitInputs /\ [][NextInputs]_vars

\* SpecNames: file names of long texts from every kind of conversation, in a
\* plugin configured with cleanup_interval = 0 whose requests fail, so that no
\* file is written
Named(events, texts) ==
    \/ \E t \in Tasks, e \in events, text \in texts :
          Quiet /\ FreeSlot(t) /\ on_command(t, e, StrArg(text))
    \/ \E t \in Tasks, e \in events, text \in FewTexts, sample \in Samples :
          Quiet /\ FreeSlot(t) /\ on_llm_resp(t, e, text, sample)

FailedOutcomes == {o \in FewOutcomes : ~MakeRequestReturnsBytes(o)}

NextNames ==
    \/ Named(NameEvents, NameTexts)
    \/ Completions(FailedOutcomes, {"ok"})
    \/ \E t \in Tasks : resume(t)
    \/ \E t \in Tasks : retire(t)

SpecNames == InitInputs /\ [][NextNames]_vars

\* SpecOverlap: a handler is invoked while another is suspended, on one text,
\* one argument and two bodies, in a plugin configured with an endpoint, a
\* cleanup task and a probability of 1
Overlapping(texts, args) ==
    \/ \E t \in Tasks, e \in Events, text \in texts, sample \in Samples :
          FreeSlot(t) /\ on_llm_resp(t, e, text, sample)
    \/ \E t \in Tasks, e \in Events, a \in args :
          FreeSlot(t) /\ on_command(t, e, a)

OneText == {<<"1">>}
OneArg == {StrArg(<<"1">>)}
TwoBodies ==
    {[kind |-> "response", status |-> 200, body |-> b] :
        b \in {<<255>>, <<255, 255>>}}
    \cup {[kind |-> "response", status |-> 500, body |-> <<>>]}

NextOverlap ==
    \/ Overlapping(OneText, OneArg)
    \/ Completions(TwoBodies, {"ok"})
    \/ Host
    \/ Cleanup({FALSE}, {{}})

InitOverlap ==
    /\ Constructed({1})
    /\ base_url = Url
    /\ send_record_probability = ProbScale
    /\ max_resp_text_len = 1

SpecOverlap == InitOverlap /\ [][NextOverlap]_vars

\* SpecCleanup: the cleanup task with every failure of a purge, beside handlers
\* invoked one after the other on one text and one argument.  The event loop
\* runs a task that is ready and fires a timer that is due, so the steps of
\* the cleanup task are taken when they stay possible
SomeOutcomes ==
    TwoBodies \cup {[kind |-> "client_error", status |-> 0, body |-> <<>>]}

CleanupStep == Cleanup(BOOLEAN, SUBSET (DOMAIN files))

NextCleanup ==
    \/ Handlers(OneText, OneArg)
    \/ Completions(SomeOutcomes, WriteOutcomes)
    \/ Host
    \/ CleanupStep

SpecCleanup == Init /\ [][NextCleanup]_vars /\ WF_vars(CleanupStep)

\* SpecHang: overlapping handlers where the request of the invocation in the
\* first slot never completes.  The event loop runs every task that is ready:
\* the cleanup task and the other invocations, whose requests do complete, take
\* their steps when these stay possible
Others == Tasks \ {1}

CompletionOf(t, outcomes, writes) ==
    \E o \in outcomes, wr \in writes : http_done(t, o, wr)

HostOf(t) == send_done(t) \/ resume(t) \/ retire(t)

PlainCleanup == Cleanup({FALSE}, {{}})

NextHang ==
    \/ Overlapping(OneText, OneArg)
    \/ \E t \in Others : CompletionOf(t, FewOutcomes, {"ok"})
    \/ \E t \in Tasks : HostOf(t)
    \/ PlainCleanup

SpecHang ==
    /\ InitOverlap
    /\ [][NextHang]_vars
    /\ WF_vars(PlainCleanup)
    /\ \A t \in Others : WF_vars(CompletionOf(t, FewOutcomes, {"ok"}))
    /\ \A t \in Tasks : WF_vars(HostOf(t))

\* ---------------------------------------------------------------- claims

Finished(t) == task[t].pc \in {"done", "raised"}

\* an argument was given to the command: an integer or a non-empty string
Given(arg) == arg.tag = "int" \/ (arg.tag = "str" /\ arg.str # <<>>)

Is2xx(status) == status \in 200..299

\* C1 (as claimed): no exception propagates out of tts_inference into a
\* handler, whatever fails inside it, the write of the audio file included.
C1_NoExceptionEscapes == \A t \in Tasks : task[t].pc # "raised"

\* C2 (as claimed): when tts_inference was called by on_llm_resp and did not
\* yield a path, the handler returns, has sent nothing and has left the reply
\* chain as it was.
C2_FailureLeavesReply ==
    \A t \in Tasks :
        (/\ task[t].kind = "llm"
         /\ task[t].tts_calls = 1
         /\ task[t].pc # "http"
         /\ task[t].save_path.tag # "path")
        => (/\ task[t].pc = "done"
            /\ task[t].sent = <<>>
            /\ task[t].chain = task[t].arg.str)

\* no invocation has issued a request or written a file, and every call of
\* tts_inference has returned None, when base_url is empty
C3_NoEndpoint ==
    base_url = <<>> =>
        /\ \A t \in Tasks :
              /\ task[t].requests = 0
              /\ task[t].writes = 0
              /\ task[t].pc \notin {"http", "send", "raised"}
              /\ task[t].http = NoHttp
              /\ task[t].tts_calls > 0 => task[t].save_path = None
        /\ DOMAIN files \subseteq {StaleFile}

\* C3: with no base_url, every call of tts_inference returns None at once: no
\* request is issued and no file is written, in every reachable state, and
\* base_url never changes.
C3_NoEndpointEver == [](C3_NoEndpoint) /\ [][base_url' = base_url]_vars

C3_Witness ==
    /\ base_url = <<>>
    /\ \E t \in Tasks : task[t].tts_calls = 1 /\ task[t].save_path = None

\* C4: in on_llm_resp, when the text to speak (the reply, brackets stripped and
\* trimmed) is empty or longer than max_resp_text_len, tts_inference is not
\* called, no request is made, no file is written and nothing is sent; a text
\* of exactly max_resp_text_len characters passes the length gate.
C4_TextGates ==
    \A t \in Tasks :
        task[t].kind = "llm" =>
            LET text_to_speak == TextToSpeak(task[t].arg.str)
            IN  /\ (text_to_speak = <<>> \/ Len(text_to_speak) > max_resp_text_len)
                   => (/\ task[t].pc = "done"
                       /\ task[t].tts_calls = 0
                       /\ task[t].requests = 0
                       /\ task[t].writes = 0
                       /\ task[t].sent = <<>>)
                /\ (/\ Len(text_to_speak) = max_resp_text_len
                    /\ task[t].sample <= send_record_probability)
                   => (task[t].gate = "pass" /\ task[t].tts_calls = 1)

C4_Witness ==
    \E t \in Tasks :
        /\ task[t].kind = "llm"
        /\ task[t].gate = "len"
        /\ task[t].text # task[t].arg.str
        /\ Len(task[t].text) = max_resp_text_len + 1

\* C5: on_llm_resp draws one sample per invocation; a sample above
\* send_record_probability ends the handler with nothing done (no text
\* extracted, no synthesis, nothing sent, the reply unmodified), any other
\* sample takes it to the text gates; for every probability from 0 to 1.
C5_ProbabilityGate ==
    \A t \in Tasks :
        task[t].kind = "llm" =>
            /\ task[t].samples = 1
            /\ task[t].sample > send_record_probability
               => (/\ task[t].gate = "prob"
                   /\ task[t].pc = "done"
                   /\ task[t].text = <<>>
                   /\ task[t].tts_calls = 0
                   /\ task[t].requests = 0
                   /\ task[t].sent = <<>>
                   /\ task[t].chain = task[t].arg.str)
            /\ task[t].sample <= send_record_probability
               => task[t].gate \in {"len", "empty", "pass"}

C5_Witness ==
    \E t \in Tasks :
        /\ task[t].kind = "llm"
        /\ task[t].sample > send_record_probability
        /\ TextToSpeak(task[t].arg.str) # <<>>
        /\ task[t].pc = "done"

\* C6 (as claimed): on_command answers with the usage prompt, and attempts no
\* synthesis, exactly when no argument was given; for every argument given,
\* string or integer, it calls tts_inference.
C6_UsageOnlyWithoutArgument ==
    \A t \in Tasks :
        task[t].kind = "cmd" =>
            /\ (task[t].gate = "usage") <=> ~Given(task[t].arg)
            /\ Given(task[t].arg) => task[t].tts_calls = 1

\* C7 (as claimed): an invocation of on_command that attempted synthesis ends
\* with exactly one reply, the audio if tts_inference gave a path and the
\* failure notice otherwise, whatever the outcome of the synthesis.
C7_OneReply ==
    \A t \in Tasks :
        (task[t].kind = "cmd" /\ task[t].tts_calls = 1 /\ Finished(t))
        => (/\ Len(task[t].replies) = 1
            /\ task[t].replies[1] =
                  IF task[t].save_path.tag = "path"
                  THEN <<Record(task[t].save_path.path)>>
                  ELSE <<FailureNotice>>)

\* C8 (as claimed): _make_request returns the body exactly for the statuses
\* both statements of the spec call a success, every 2xx status, and None
\* for the others.
C8_Any2xxReturnsBytes ==
    \A t \in Tasks :
        task[t].http.kind = "response" =>
            (task[t].audio_bytes.tag = "bytes" <=> Is2xx(task[t].http.status))

\* C8 (amended): _make_request returns the body exactly for status 200; for
\* every other status, the other 2xx included, and for every error of the
\* request it returns None, and it never raises.
C8_Only200ReturnsBytes ==
    \A t \in Tasks :
        /\ task[t].http.kind = "response"
           => /\ task[t].http.status = 200
                 => task[t].audio_bytes = BytesOf(task[t].http.body)
              /\ task[t].http.status # 200
                 => (task[t].audio_bytes = NoBytes /\ task[t].pc # "raised")
        /\ task[t].http.kind \in {"client_error", "exception"}
           => (task[t].audio_bytes = NoBytes /\ task[t].pc # "raised")

C8_Witness ==
    \E t \in Tasks :
        /\ task[t].http.kind = "response"
        /\ task[t].http.status = 201
        /\ task[t].http.body # <<>>
        /\ task[t].audio_bytes = NoBytes

\* C9 (as claimed): whenever the request ends with status 200 and a body B,
\* the empty one included, tts_inference returns a path, and as it returns
\* the file of that path exists and holds B.
C9_RoundTrip ==
    [][\A t \in Tasks :
          (/\ task[t].pc = "http"
           /\ task'[t].pc # "http"
           /\ task'[t].http.kind = "response"
           /\ task'[t].http.status = 200)
          => (/\ task'[t].save_path = PathOf(SavePath(task[t].file_name))
              /\ task[t].file_name \in DOMAIN files'
              /\ files'[task[t].file_name] = task'[t].http.body)]_vars

\* no cleanup task exists, no purge pass has run and the file that was in the
\* scratch directory at construction is still there, when cleanup_interval <= 0
C10_Disabled ==
    cleanup_interval_hours <= 0 =>
        /\ cleanup.pc = "none"
        /\ ~cleanup.purged
        /\ StaleFile \in DOMAIN files

\* C10: with cleanup_interval <= 0 no cleanup task is ever created and no
\* purge ever runs, so no step deletes a file of the scratch directory.
C10_NoCleanupEver ==
    /\ [](C10_Disabled)
    /\ [][cleanup_interval_hours <= 0 => DOMAIN files \subseteq DOMAIN files']_vars

C10_Witness ==
    /\ cleanup_interval_hours = 0
    /\ Cardinality(DOMAIN files) >= 2
    /\ \A t \in Tasks : task[t].pc = "idle"

\* the cleanup task exists and is at one of the three places of its loop; once
\* it sleeps it has purged and holds the interval of the configuration
C11_TaskInLoop ==
    CleanupEnabled =>
        /\ cleanup.pc \in {"created", "sleeping", "ready"}
        /\ cleanup.pc # "created" =>
              /\ cleanup.purged
              /\ cleanup.interval_seconds = cleanup_interval_hours * 3600

\* a step of the cleanup task that runs a purge pass
PurgePass == cleanup.pc \in {"created", "ready"} /\ cleanup'.pc = "sleeping"

\* the cleanup task moves from its creation to a purge, from a purge to a
\* sleep and from the end of a sleep to a purge; only a purge touches the files
\* it counts, and the interval is not read again
C11_Alternates ==
    cleanup' # cleanup =>
        \/ /\ cleanup.pc = "created"
           /\ PurgePass /\ cleanup'.purged
        \/ /\ cleanup.pc = "sleeping" /\ cleanup'.pc = "ready"
           /\ cleanup' = [cleanup EXCEPT !.pc = "ready"]
           /\ files' = files
        \/ /\ cleanup.pc = "ready"
           /\ PurgePass /\ cleanup'.purged
           /\ cleanup'.interval_seconds = cleanup.interval_seconds

\* C11: with cleanup_interval > 0 the one cleanup task of the plugin purges
\* once before its first sleep, then alternates sleep and purge using the
\* interval read at start; no failure inside a purge ends the loop, so under
\* fair scheduling a purge pass runs infinitely often.
C11_PeriodicCleanup ==
    /\ [](C11_TaskInLoop)
    /\ [][C11_Alternates]_vars
    /\ (CleanupEnabled => []<><<PurgePass>>_vars)

\* the loop sleeps again after a pass in which an unlink() failed
C11_Witness ==
    /\ CleanupEnabled
    /\ cleanup.pc = "sleeping"
    /\ cleanup.attempted > cleanup.cleaned_count

\* what a purge pass does to the scratch directory: it removes files only,
\* leaves the sub-directories and the remaining files as they were, and counts
\* the files it removed
PurgeCounts ==
    /\ dirs' = dirs
    /\ DOMAIN files' \subseteq DOMAIN files
    /\ files' = Restrict(files, DOMAIN files')
    /\ cleanup'.cleaned_count = Cardinality((DOMAIN files) \ (DOMAIN files'))
    /\ cleanup'.attempted >= cleanup'.cleaned_count

\* C12 (as claimed): every purge pass attempts to delete every regular file of
\* the scratch directory and nothing else, never removes a directory, goes on
\* after a deletion failure and counts the files it deleted.
C12_EveryFileAttempted ==
    [][PurgePass => /\ PurgeCounts
                    /\ cleanup'.attempted = Cardinality(DOMAIN files)]_vars

\* C12 (amended): a purge pass that could list the scratch directory attempts
\* to delete every regular file of it, whatever deletions fail; a pass that
\* could not list it attempts nothing and deletes nothing.  Every pass leaves
\* the directories alone and counts the files it deleted.
C12_ListedFilesAttempted ==
    [][PurgePass =>
          /\ PurgeCounts
          /\ IF cleanup'.listing_error
             THEN cleanup'.attempted = 0 /\ files' = files
             ELSE cleanup'.attempted = Cardinality(DOMAIN files)]_vars

\* a pass has listed two files, failed to delete one and deleted the other
C12_Witness ==
    /\ cleanup.purged
    /\ ~cleanup.listing_error
    /\ cleanup.attempted = 2
    /\ cleanup.cleaned_count = 1
    /\ Cardinality(DOMAIN files) = 1
    /\ dirs = {SubDir}

\* file f is new, or has new contents, after the step
Written(f) == f \in DOMAIN files' /\ (f \notin DOMAIN files \/ files'[f] # files[f])

\* the step ends the request of invocation t with status 200 and audio bytes,
\* and tts_inference goes on to write the file named file_name
WritesAfterRequest(t, f) ==
    /\ task[t].pc = "http"
    /\ task'[t].http.kind = "response"
    /\ task'[t].http.status = 200
    /\ task'[t].audio_bytes.tag = "bytes"
    /\ task'[t].writes = 1
    /\ f = task[t].file_name

\* the files left by a purge pass are the files the pass failed to delete
SurvivorsFailed ==
    Cardinality(DOMAIN files') =
        IF cleanup'.listing_error THEN Cardinality(DOMAIN files)
        ELSE cleanup'.attempted - cleanup'.cleaned_count

C14_HangStallsOnlyIssuer ==
    /\ [](task[1].pc = "http" => [](task[1].pc = "http"))
    /\ (CleanupEnabled => []<><<PurgePass>>_vars)
    /\ \A t \in Others : (task[t].pc # "idle") ~> Finished(t)

\* beside a pending request another invocation has sent its audio and the
\* cleanup task has purged and sleeps
C14_Witness ==
    /\ task[1].pc = "http"
    /\ \E t \in Others : task[t].pc = "done" /\ task[t].sent # <<>>
    /\ cleanup.pc = "sleeping"

\* the characters a file name keeps of its text
AllowedInName(c) == c \in AsciiAlnum \cup CjkIdeographs \cup Whitespace

\* s without the characters that a file name does not keep
RECURSIVE Kept(_)
Kept(s) ==
    IF s = <<>> THEN <<>>
    ELSE IF AllowedInName(Head(s)) THEN <<Head(s)>> \o Kept(Tail(s))
    ELSE Kept(Tail(s))

\* s from its first to its last character that is not whitespace
Trimmed(s) ==
    LET inner == {i \in 1..Len(s) : s[i] \notin Whitespace}
    IN  IF inner = {} THEN <<>>
        ELSE SubSeq(s, CHOOSE i \in inner : \A j \in inner : i <= j,
                       CHOOSE i \in inner : \A j \in inner : i >= j)

\* name is the file name claimed for the text of a conversation
NameAsClaimed(event, text, name) ==
    LET scope == IF event.group = <<>> THEN <<"0">> ELSE event.group
        sender == IF event.sender = <<>> THEN <<"0">> ELSE event.sender
        whole == Trimmed(Kept(text))
        start == Len(scope) + Len(sender) + 2
        prefix == SubSeq(name, start + 1, Len(name) - Len(response_format) - 1)
    IN  /\ name = scope \o <<"_">> \o sender \o <<"_">> \o prefix
                      \o <<".">> \o response_format
        /\ Len(prefix) = IF Len(whole) < 30 THEN Len(whole) ELSE 30
        /\ prefix = SubSeq(whole, 1, Len(prefix))
        /\ \A i \in 1..Len(prefix) : AllowedInName(prefix[i])

\* C15: generate_file_name returns {scope or "0"}_{sender or "0"}_{prefix}.{format}
\* where prefix is the text without the characters that are not ASCII letters
\* or digits, CJK ideographs or whitespace, then trimmed, then cut to its first
\* 30 characters; the prefix holds allowed characters only.
C15_FileName ==
    \A t \in Tasks :
        task[t].gate = "pass" =>
            NameAsClaimed(task[t].event, task[t].text, task[t].file_name)

\* a file name of a group conversation whose text lost characters, was trimmed
\* and was cut to 30 characters
C15_Witness ==
    \E t \in Tasks :
        /\ task[t].gate = "pass"
        /\ task[t].event.group # <<>>
        /\ Len(Kept(task[t].text)) < Len(task[t].text)
        /\ Len(Trimmed(Kept(task[t].text))) < Len(Kept(task[t].text))
        /\ Len(Trimmed(Kept(task[t].text))) > 30
        /\ Len(task[t].file_name) = 30 + 8

\* the call of tts_inference made by invocation t, with an endpoint
\* configured, has ended
CallEnded(t) ==
    /\ task[t].tts_calls = 1
    /\ base_url # <<>>
    /\ task[t].pc \notin {"idle", "http"}

\* C16 (as claimed): a call of tts_inference with an endpoint configured
\* issues exactly one request, writes the file exactly once when the request
\* returned bytes and never when it failed, and changes nothing but that file.
C16_OneRequestOneWrite ==
    /\ [](\A t \in Tasks :
            CallEnded(t) =>
                /\ task[t].requests = 1
                /\ task[t].writes =
                      IF task[t].audio_bytes.tag = "bytes" THEN 1 ELSE 0)
    /\ [][\A t \in Tasks :
            (task[t].pc = "http" /\ task'[t].pc # "http") =>
                /\ UNCHANGED <<config, dirs, cleanup>>
                /\ \A f \in (DOMAIN files) \ {task[t].file_name} :
                      f \in DOMAIN files' /\ files'[f] = files[f]
                /\ DOMAIN files' \subseteq DOMAIN files \cup {task[t].file_name}]_vars

\* C17: when tts_inference returned a path, on_llm_resp sends exactly one
\* message of two segments, the reply text as it was received and then the
\* audio of that path, and sends nothing otherwise; the reply chain is the one
\* it was given on every path of the handler.
C17_SendsTextThenAudio ==
    \A t \in Tasks :
        task[t].kind = "llm" =>
            /\ task[t].chain = task[t].arg.str
            /\ task[t].replies = <<>>
            /\ IF task[t].pc = "done" /\ task[t].save_path.tag = "path"
               THEN /\ task[t].save_path.path = SavePath(task[t].file_name)
                    /\ task[t].sent =
                          << <<Plain(task[t].arg.str),
                               Record(SavePath(task[t].file_name))>> >>
               ELSE task[t].sent = <<>>

\* a reply with a bracketed part was sent whole, with the audio of the rest
C17_Witness ==
    \E t \in Tasks :
        /\ task[t].kind = "llm"
        /\ task[t].pc = "done"
        /\ task[t].sent # <<>>
        /\ task[t].text # task[t].arg.str

\* the step in which the call of invocation t returns the path of its file
ReturnsPath(t) ==
    /\ task[t].pc = "http"
    /\ task'[t].save_path.tag = "path"

\* C18: when overlapping calls of tts_inference derive the same file name,
\* each call that returns a path leaves in the file exactly the bytes it
\* received, whatever the file held, so that the file ends with the bytes of
\* the last writer and never with a mixture; the calls return the same path.
C18_LastWriterWins ==
    /\ [][\A t \in Tasks :
            ReturnsPath(t) =>
                /\ task[t].file_name \in DOMAIN files'
                /\ files'[task[t].file_name] = task'[t].http.body]_vars
    /\ [][\A f \in DOMAIN files' :
            Written(f) => \E t \in Tasks : ReturnsPath(t) /\ f = task[t].file_name]_vars
    /\ [](\A t, u \in Tasks :
            (/\ task[t].save_path.tag = "path"
             /\ task[u].save_path.tag = "path"
             /\ task[t].file_name = task[u].file_name)
            => task[t].save_path = task[u].save_path)

\* two calls with the same file name and different bytes have both returned,
\* the second while the first was pending, and the file holds the bytes of the
\* call that returned last
C18_Witness ==
    \E t, u \in Tasks :
        /\ t # u
        /\ task[t].file_name = task[u].file_name
        /\ task[t].save_path.tag = "path"
        /\ task[u].save_path.tag = "path"
        /\ task[u].overlapped /\ ~task[t].overlapped
        /\ task[t].http.body # task[u].http.body
        /\ task[t].file_name \in DOMAIN files
        /\ files[task[t].file_name] = task[t].http.body

\* invocation t holds the path that tts_inference returned and its message or
\* result has not been sent yet
HoldsUnsentPath(t) ==
    /\ task[t].save_path.tag = "path"
    /\ \/ task[t].pc = "send"
       \/ task[t].pc = "yielded"

\* C19: nothing orders the cleanup task against the handlers: whenever a
\* handler holds a path it got from tts_inference and has not sent yet, and
\* the cleanup task is ready to run, a purge pass can run at once and delete
\* the file of that path; so the file may be gone when the reply is sent.
C19_PurgeCanPrecedeSend ==
    \A t \in Tasks :
        (/\ HoldsUnsentPath(t)
         /\ task[t].file_name \in DOMAIN files
         /\ cleanup.pc = "ready")
        => ENABLED (/\ PlainCleanup
                    /\ HoldsUnsentPath(t)'
                    /\ task[t].file_name \notin DOMAIN files')

\* on_llm_resp holds the path of a file that a purge pass has deleted after
\* tts_inference returned it, and has not sent its message yet
C19_Witness ==
    \E t \in Tasks :
        /\ task[t].pc = "send"
        /\ task[t].save_path = PathOf(SavePath(task[t].file_name))
        /\ task[t].sent = <<>>
        /\ task[t].file_name \notin DOMAIN files
        /\ cleanup.purged

\* the places where a handler and the cleanup task are suspended or at rest
HandlerRests == {"idle", "http", "send", "yielded", "done", "raised"}
CleanupRests == {"none", "created", "sleeping", "ready"}

\* C20: a purge pass and a file write are each one uninterrupted step: no
\* task ever rests inside a write or inside a purge; the step that creates a
\* file also completes its write and runs no purge, and the step of a purge
\* pass moves no handler and writes no file.
C20_WriteAndPurgeAtomic ==
    /\ [](/\ \A t \in Tasks : task[t].pc \in HandlerRests
          /\ cleanup.pc \in CleanupRests)
    /\ [][\A t \in Tasks :
            (task[t].pc = "http" /\ task'[t].pc # "http" /\ task'[t].writes = 1)
            => /\ cleanup' = cleanup
               /\ \/ task'[t].pc = "raised"
                  \/ /\ task[t].file_name \in DOMAIN files'
                     /\ files'[task[t].file_name] = task'[t].audio_bytes.bytes]_vars
    /\ [][PurgePass =>
            /\ task' = task
            /\ \A f \in DOMAIN files' : ~Written(f)]_vars

\* a file written after a purge pass holds all its bytes while the cleanup
\* task sleeps and another request is pending
C20_Witness ==
    /\ cleanup.pc = "sleeping"
    /\ cleanup.cleaned_count >= 1
    /\ StaleFile \notin DOMAIN files
    /\ \E t, u \in Tasks :
          /\ task[u].pc = "http"
          /\ task[t].save_path.tag = "path"
          /\ task[t].file_name \in DOMAIN files
          /\ files[task[t].file_name] = task[t].http.body

====
